---- MODULE Spec2Model ----
(***************************************************************************)
(* Model of backend/static/js/weather.js (Weather-247 client script).      *)
(*                                                                         *)
(* Sub-systems, each with its own specification over the shared variables: *)
(*   SpecCache    WeatherCache (TTL cache) and its 5-minute sweep interval *)
(*   SpecTimers   UIUtils.debounce / UIUtils.throttle wrappers             *)
(*   SpecAPI      WeatherAPI request operations                            *)
(*   SpecStorage  StorageUtils over localStorage                           *)
(*   SpecAQI      WeatherUtils.getAQILevel                                 *)
(*   SpecWind     WeatherUtils.getWindDirection                            *)
(*                                                                         *)
(* Time is in milliseconds, as returned by Date.now().  The clock only     *)
(* moves forward.  Timers (setTimeout / setInterval) run at their due      *)
(* time: the clock never passes a pending timer's due time, but any other  *)
(* handler scheduled for the same millisecond may run before the timer.    *)
(***************************************************************************)
EXTENDS Integers, Sequences, FiniteSets, TLC

VARIABLES
    now,        \* Date.now(), ms
    \* WeatherCache
    cache,      \* WeatherCache.cache: the Map, as a function key -> item
    sweepAt,    \* due time of the setInterval(clearExpired) timer
    lastSetAt,  \* history: per key, time of the most recent set (Never if none)
    lastOp,     \* history: the last cache operation run at the current instant
    lazy,       \* the Map of a WeatherCache given the same set, get and clear
                \* calls but no clearExpired call
    \* UIUtils.debounce / UIUtils.throttle
    timers,     \* the pending setTimeout callbacks
    nextId,     \* the id the next setTimeout returns
    timeout,    \* debounce: the closure variable `timeout`
    inThrottle, \* throttle: the closure variable `inThrottle`
    calls,      \* history: the calls made to the wrappers
    dRuns,      \* history: the invocations of func by the debounced wrapper
    tRuns,      \* history: the invocations of func by the throttled wrapper
    \* WeatherAPI: one call of an operation, from its start to its outcome
    apiPc,      \* "idle", "fetch" (awaiting fetch), "json" (awaiting
                \* response.json()), "returned", "thrown"
    apiOp,      \* the operation called
    apiRequests,\* the requests the call has issued with fetch
    apiResponse,\* the Response fetch resolved with
    apiOutcome, \* what the caller gets: a value, or the error thrown
    apiLog,     \* number of console.error calls of the call
    \* StorageUtils
    store,      \* localStorage: key -> string
    stLast,     \* history: the last StorageUtils operation and what it gave
    \* WeatherUtils.getAQILevel
    aqi,        \* the argument of the last call
    aqiResult,  \* the object it returned
    \* WeatherUtils.getWindDirection
    degrees,    \* the argument of the last call
    windDir     \* the string it returned

cacheVars == <<cache, sweepAt, lastSetAt, lastOp, lazy>>
timerVars == <<timers, nextId, timeout, inThrottle, calls, dRuns, tRuns>>

apiVars == <<apiPc, apiOp, apiRequests, apiResponse, apiOutcome, apiLog>>
storageVars == <<store, stLast>>
aqiVars == <<aqi, aqiResult>>
windVars == <<degrees, windDir>>

vars == <<now, cacheVars, timerVars, apiVars, storageVars, aqiVars, windVars>>

----------------------------------------------------------------------------
(* Bounds and input sets *)

MaxSweeps == 4
MaxOffset == 1

Keys == {"k1", "k2"}
Values == {"v1", "v2"}

\* the value `null` returned by WeatherCache.get for a miss
Null == "null"
\* no set has happened for a key
Never == 0 - 1

----------------------------------------------------------------------------
(* WeatherCache *)

\* maxAge: 10 * 60 * 1000
maxAge == 10 * 60 * 1000

\* setInterval(..., 5 * 60 * 1000)
SweepInterval == 5 * 60 * 1000

\* instants at which the clock is observed: around every sweep tick
CacheInstants == { i * SweepInterval + j : i \in 0..MaxSweeps, j \in 0..MaxOffset }

\* Date.now() - item.timestamp > this.maxAge
Expired(item, t) == t - item.timestamp > maxAge

\* get(key): the returned value and the Map afterwards
WeatherCache_get_noExpiry(c, key, t) ==
    IF key \notin DOMAIN c
    THEN [ret |-> Null, cache |-> c]
    ELSE [ret |-> c[key].data, cache |-> c]

WeatherCache_get_noDelete(c, key, t) ==
    IF key \notin DOMAIN c
    THEN [ret |-> Null, cache |-> c]
    ELSE IF t - c[key].timestamp > maxAge
         THEN [ret |-> Null, cache |-> c]
         ELSE [ret |-> c[key].data, cache |-> c]

WeatherCache_get(c, key, t) ==
    IF key \notin DOMAIN c
    THEN [ret |-> Null, cache |-> c]
    ELSE IF Expired(c[key], t)
         THEN [ret |-> Null, cache |-> [k \in DOMAIN c \ {key} |-> c[k]]]
         ELSE [ret |-> c[key].data, cache |-> c]

WeatherCache_set_keepTimestamp(c, key, data, t) ==
    [k \in DOMAIN c \cup {key} |->
        IF k = key
        THEN [data |-> data, timestamp |-> IF key \in DOMAIN c THEN c[key].timestamp ELSE t]
        ELSE c[k]]

\* set(key, data)
WeatherCache_set(c, key, data, t) ==
    [k \in DOMAIN c \cup {key} |->
        IF k = key THEN [data |-> data, timestamp |-> t] ELSE c[k]]

WeatherCache_clearExpired_firstOnly(c, t) ==
    LET old == {x \in DOMAIN c : t - c[x].timestamp > maxAge} IN
    IF old = {}
    THEN c
    ELSE [k \in DOMAIN c \ {CHOOSE x \in old : TRUE} |-> c[k]]

WeatherCache_clearExpired_noDelete(c, t) == c

WeatherCache_clearExpired_all(c, t) == [k \in {} |-> Null]

WeatherCache_clearExpired_atAge(c, t) ==
    [k \in {x \in DOMAIN c : t - c[x].timestamp < maxAge} |-> c[k]]

\* clearExpired(): delete every entry with now - timestamp > maxAge
WeatherCache_clearExpired(c, t) ==
    [k \in {x \in DOMAIN c : ~Expired(c[x], t)} |-> c[k]]

\* clear()
WeatherCache_clear(c) == [k \in {} |-> Null]

NoOp == [op |-> "none"]

notCache == <<timerVars, apiVars, storageVars, aqiVars, windVars>>

CacheInit ==
    /\ cache = [k \in {} |-> Null]
    /\ sweepAt = SweepInterval
    /\ lastSetAt = [k \in Keys |-> Never]
    /\ lastOp = NoOp
    /\ lazy = [k \in {} |-> Null]

\* the operations that run clearExpired
Sweeps == {"clearExpired", "sweep"}

\* what a later operation remembers of the one before it
Brief(o) == IF o.op = "set" THEN o ELSE [op |-> o.op]

Get(k) ==
    /\ cache' = WeatherCache_get(cache, k, now).cache
    /\ lastOp' = [op |-> "get", key |-> k,
                  ret |-> WeatherCache_get(cache, k, now).ret,
                  evicted |-> (k \in DOMAIN cache /\ k \notin DOMAIN cache'),
                  prev |-> Brief(lastOp),
                  lazyRet |-> WeatherCache_get(lazy, k, now).ret,
                  swept |-> (k \in DOMAIN lazy /\ k \notin DOMAIN cache)]
    /\ lazy' = WeatherCache_get(lazy, k, now).cache
    /\ UNCHANGED <<now, sweepAt, lastSetAt, notCache>>

Set(k, v) ==
    /\ cache' = WeatherCache_set(cache, k, v, now)
    /\ lastSetAt' = [lastSetAt EXCEPT ![k] = now]
    /\ lastOp' = [op |-> "set", key |-> k, data |-> v,
                  old |-> IF k \in DOMAIN cache THEN cache[k] ELSE [data |-> Null, timestamp |-> Never]]
    /\ lazy' = WeatherCache_set(lazy, k, v, now)
    /\ UNCHANGED <<now, sweepAt, notCache>>

\* a direct call of WeatherCache.clearExpired()
ClearExpired ==
    /\ cache' = WeatherCache_clearExpired(cache, now)
    /\ lastOp' = [op |-> "clearExpired", removed |-> DOMAIN cache \ DOMAIN cache',
                  again |-> (lastOp.op \in Sweeps /\ lastOp.removed # {})]
    /\ UNCHANGED <<now, sweepAt, lastSetAt, lazy, notCache>>

Clear ==
    /\ cache' = WeatherCache_clear(cache)
    /\ lastOp' = [op |-> "clear"]
    /\ lazy' = WeatherCache_clear(lazy)
    /\ UNCHANGED <<now, sweepAt, lastSetAt, notCache>>

\* the interval callback: () => WeatherCache.clearExpired(), re-armed by setInterval
SweepTimer ==
    /\ now = sweepAt
    /\ cache' = WeatherCache_clearExpired(cache, now)
    /\ sweepAt' = sweepAt + SweepInterval
    /\ lastOp' = [op |-> "sweep", removed |-> DOMAIN cache \ DOMAIN cache',
                  again |-> (lastOp.op \in Sweeps /\ lastOp.removed # {})]
    /\ UNCHANGED <<now, lastSetAt, lazy, notCache>>

\* the clock moves forward, at most to the next due sweep
CacheAdvance ==
    /\ \E t \in CacheInstants :
        /\ t > now
        /\ t <= sweepAt
        /\ now' = t
    /\ lastOp' = NoOp
    /\ UNCHANGED <<cache, sweepAt, lastSetAt, lazy, notCache>>

CacheNext ==
    \/ \E k \in Keys : Get(k)
    \/ \E k \in Keys, v \in Values : Set(k, v)
    \/ ClearExpired
    \/ Clear
    \/ SweepTimer
    \/ CacheAdvance

----------------------------------------------------------------------------
(* UIUtils.debounce and UIUtils.throttle *)

\* debounce(..., 300) in initializeGlobalListeners
Wait == 300

\* the `limit` argument given to throttle (the script defines throttle but
\* never calls it, so the value is an input of the model)
Limit == 200

MaxCalls == 4

\* the arguments a wrapper is called with
Args == {"a", "b"}

\* the instants at which the wrappers may be called
CallTimes == {10, 190} \cup { 50 * i : i \in 0..9 }

\* `timeout` and `inThrottle` before their first assignment
Undefined == 0

setTimeout(ts, id, fn, args, due) ==
    ts \cup {[id |-> id, fn |-> fn, args |-> args, due |-> due]}

clearTimeout(ts, id) == {x \in ts : x.id # id}

executedFunction_noClear(ts, to, id, args, t) ==
    [timers |-> setTimeout(ts, id, "later", args, t + Wait), timeout |-> id]

\* the wrapper returned by debounce: clearTimeout(timeout);
\* timeout = setTimeout(later, wait)
executedFunction(ts, to, id, args, t) ==
    [timers |-> setTimeout(clearTimeout(ts, to), id, "later", args, t + Wait),
     timeout |-> id]

throttled_noFlag(ts, flag, id, args, t) ==
    [ran |-> TRUE, inThrottle |-> FALSE,
     timers |-> setTimeout(ts, id, "unthrottle", args, t + Limit)]

throttled_noReset(ts, flag, id, args, t) ==
    IF ~flag
    THEN [ran |-> TRUE, inThrottle |-> TRUE, timers |-> ts]
    ELSE [ran |-> FALSE, inThrottle |-> flag, timers |-> ts]

\* the wrapper returned by throttle: if (!inThrottle) { func.apply(...);
\* inThrottle = true; setTimeout(() => inThrottle = false, limit) }
throttled(ts, flag, id, args, t) ==
    IF ~flag
    THEN [ran |-> TRUE, inThrottle |-> TRUE,
          timers |-> setTimeout(ts, id, "unthrottle", args, t + Limit)]
    ELSE [ran |-> FALSE, inThrottle |-> flag, timers |-> ts]

TimersInit ==
    /\ timers = {}
    /\ nextId = 1
    /\ timeout = Undefined
    /\ inThrottle = FALSE
    /\ calls = <<>>
    /\ dRuns = <<>>
    /\ tRuns = <<>>

notTimers == <<cacheVars, apiVars, storageVars, aqiVars, windVars>>

\* one event: the debounced and the throttled wrapper are both called with a
Call(a) ==
    /\ Len(calls) < MaxCalls
    /\ now \in CallTimes
    /\ LET d == executedFunction(timers, timeout, nextId, a, now)
           th == throttled(d.timers, inThrottle, nextId + 1, a, now)
       IN  /\ timers' = th.timers
           /\ timeout' = d.timeout
           /\ inThrottle' = th.inThrottle
           /\ nextId' = nextId + Cardinality(th.timers \ timers)
           /\ calls' = Append(calls, [t |-> now, args |-> a])
           /\ tRuns' = IF th.ran
                       THEN Append(tRuns, [t |-> now, args |-> a, n |-> Len(calls) + 1])
                       ELSE tRuns
    /\ UNCHANGED <<now, dRuns, notTimers>>

\* the timer callback of debounce: clearTimeout(timeout); func(...args)
Later ==
    /\ \E x \in timers :
        /\ x.fn = "later"
        /\ x.due = now
        /\ timers' = clearTimeout(timers \ {x}, timeout)
        /\ dRuns' = Append(dRuns, [t |-> now, args |-> x.args, n |-> Len(calls)])
    /\ UNCHANGED <<now, nextId, timeout, inThrottle, calls, tRuns, notTimers>>

\* the timer callback of throttle: () => inThrottle = false
Unthrottle ==
    /\ \E x \in timers :
        /\ x.fn = "unthrottle"
        /\ x.due = now
        /\ timers' = timers \ {x}
        /\ inThrottle' = FALSE
    /\ UNCHANGED <<now, nextId, timeout, calls, dRuns, tRuns, notTimers>>

\* the clock moves forward, at most to the next due timer
TimersAdvance ==
    /\ \E t \in CallTimes \cup {x.due : x \in timers} :
        /\ t > now
        /\ \A x \in timers : t <= x.due
        /\ now' = t
    /\ UNCHANGED <<timerVars, notTimers>>

TimersNext ==
    \/ \E a \in Args : Call(a)
    \/ Later
    \/ Unthrottle
    \/ TimersAdvance

----------------------------------------------------------------------------
(* JSON, as far as the script uses it *)

\* JS values handed to JSON.stringify
UndefinedV == "<undefined>"
NullV == "<null>"
Circular == "<circular object>"
AnObject == "<object>"

\* JSON.parse(text)
JSON_parse(text) ==
    CASE text = "\"light\"" -> [threw |-> FALSE, value |-> "light"]
      [] text = "\"dark\""  -> [threw |-> FALSE, value |-> "dark"]
      [] text = "null"      -> [threw |-> FALSE, value |-> NullV]
      [] text = "{}"        -> [threw |-> FALSE, value |-> AnObject]
      [] OTHER              -> [threw |-> TRUE, value |-> "SyntaxError"]

\* JSON.stringify(value): a string, undefined, or a TypeError
JSON_stringify(value) ==
    CASE value = "light"    -> [threw |-> FALSE, value |-> "\"light\""]
      [] value = "dark"     -> [threw |-> FALSE, value |-> "\"dark\""]
      [] value = NullV      -> [threw |-> FALSE, value |-> "null"]
      [] value = AnObject   -> [threw |-> FALSE, value |-> "{}"]
      [] value = UndefinedV -> [threw |-> FALSE, value |-> UndefinedV]
      [] OTHER              -> [threw |-> TRUE, value |-> "TypeError"]

----------------------------------------------------------------------------
(* WeatherAPI *)

ApiOps == {"getCurrentWeather", "getForecast", "getHistoricalWeather",
           "getAlerts", "compareCities", "getAirQuality", "searchCity"}

\* the request each operation passes to fetch
RequestOf(op) ==
    CASE op = "getCurrentWeather"    -> [method |-> "GET", path |-> "/api/current-weather/"]
      [] op = "getForecast"          -> [method |-> "GET", path |-> "/api/weather-forecast/"]
      [] op = "getHistoricalWeather" -> [method |-> "GET", path |-> "/api/historical-weather/"]
      [] op = "getAlerts"            -> [method |-> "GET", path |-> "/api/weather-alerts/"]
      [] op = "compareCities"        -> [method |-> "GET", path |-> "/api/compare-cities/"]
      [] op = "getAirQuality"        -> [method |-> "GET", path |-> "/api/air-quality/"]
      [] op = "searchCity"           -> [method |-> "POST", path |-> "/api/search-city/"]

\* HTTP statuses a response may carry
Statuses == {200, 201, 404, 500}

\* response bodies: JSON texts, a text that is no JSON, and a body whose
\* download breaks off
BodyAborted == "<connection lost>"
Bodies == {"{}", "null", "<html>", BodyAborted}

\* Response.ok
ResponseOk(status) == status >= 200 /\ status <= 299

NoResponse == [status |-> 0, ok |-> FALSE, body |-> ""]
NoOutcome == [kind |-> "none", what |-> ""]

catch_swallow(error) ==
    [pc |-> "returned", outcome |-> [kind |-> "value", what |-> UndefinedV]]

\* catch (error) { console.error(...); throw error; }
catch(error) ==
    [pc |-> "thrown", outcome |-> [kind |-> "error", what |-> error]]

\* the error of `throw new Error(`HTTP error! status: ${response.status}`)`
HttpError(status) == <<"HTTP error! status", status>>

ApiInit ==
    /\ apiPc = "idle"
    /\ apiOp = ""
    /\ apiRequests = <<>>
    /\ apiResponse = NoResponse
    /\ apiOutcome = NoOutcome
    /\ apiLog = 0

notApi == <<now, cacheVars, timerVars, storageVars, aqiVars, windVars>>

\* an operation is called: it runs up to `await fetch(...)`
ApiCall(op) ==
    /\ apiPc \in {"idle", "returned", "thrown"}
    /\ apiOp' = op
    /\ apiRequests' = <<RequestOf(op)>>
    /\ apiResponse' = NoResponse
    /\ apiOutcome' = NoOutcome
    /\ apiLog' = 0
    /\ apiPc' = "fetch"
    /\ UNCHANGED notApi

\* fetch resolves with a response; the operation checks response.ok and
\* either throws the HTTP error (caught, logged, rethrown) or calls
\* response.json()
FetchResolves(status, body) ==
    /\ apiPc = "fetch"
    /\ apiResponse' = [status |-> status, ok |-> ResponseOk(status), body |-> body]
    /\ IF ~ResponseOk(status)
       THEN /\ apiPc' = catch(HttpError(status)).pc
            /\ apiOutcome' = catch(HttpError(status)).outcome
            /\ apiLog' = apiLog + 1
       ELSE /\ apiPc' = "json"
            /\ UNCHANGED <<apiOutcome, apiLog>>
    /\ UNCHANGED <<apiOp, apiRequests, notApi>>

\* fetch rejects (network failure): caught, logged, rethrown
FetchRejects ==
    /\ apiPc = "fetch"
    /\ apiPc' = catch("TypeError: Failed to fetch").pc
    /\ apiOutcome' = catch("TypeError: Failed to fetch").outcome
    /\ apiLog' = apiLog + 1
    /\ UNCHANGED <<apiOp, apiRequests, apiResponse, notApi>>

\* response.json() resolves with the parsed body, which the operation returns
JsonResolves ==
    /\ apiPc = "json"
    /\ apiResponse.body # BodyAborted
    /\ ~JSON_parse(apiResponse.body).threw
    /\ apiPc' = "returned"
    /\ apiOutcome' = [kind |-> "value", what |-> JSON_parse(apiResponse.body).value]
    /\ UNCHANGED <<apiOp, apiRequests, apiResponse, apiLog, notApi>>

\* response.json() rejects: the body is no JSON, or its download failed;
\* caught, logged, rethrown
JsonRejects ==
    /\ apiPc = "json"
    /\ \/ /\ apiResponse.body = BodyAborted
          /\ apiPc' = catch("TypeError: network error").pc
          /\ apiOutcome' = catch("TypeError: network error").outcome
       \/ /\ apiResponse.body # BodyAborted
          /\ JSON_parse(apiResponse.body).threw
          /\ apiPc' = catch("SyntaxError").pc
          /\ apiOutcome' = catch("SyntaxError").outcome
    /\ apiLog' = apiLog + 1
    /\ UNCHANGED <<apiOp, apiRequests, apiResponse, notApi>>

ApiNext ==
    \/ \E op \in ApiOps : ApiCall(op)
    \/ \E st \in Statuses, b \in Bodies : FetchResolves(st, b)
    \/ FetchRejects
    \/ JsonResolves
    \/ JsonRejects

----------------------------------------------------------------------------
(* StorageUtils over localStorage *)

StoreKeys == {"theme", "units"}

\* values passed to save, and default values passed to load
SaveValues == {"light", "dark", NullV, UndefinedV, Circular}
Defaults == {NullV, "light"}

\* strings written to localStorage by code other than StorageUtils
RawStrings == {"light", ""}

\* localStorage.getItem(key): the string, or null
getItem(st, key) == IF key \in DOMAIN st THEN st[key] ELSE NullV

\* localStorage.setItem(key, string)
setItem(st, key, str) == [k \in DOMAIN st \cup {key} |-> IF k = key THEN str ELSE st[k]]

\* localStorage.removeItem(key)
removeItem(st, key) == [k \in DOMAIN st \ {key} |-> st[k]]

\* String(x), applied by setItem to its value: undefined becomes "undefined"
StringOf(x) == IF x = UndefinedV THEN "undefined" ELSE x

StorageUtils_save_propagate(st, key, value, fails) ==
    IF JSON_stringify(value).threw \/ fails
    THEN [store |-> st, threw |-> TRUE, failed |-> TRUE]
    ELSE [store |-> setItem(st, key, StringOf(JSON_stringify(value).value)),
          threw |-> FALSE, failed |-> FALSE]

\* save(key, value); `fails`: localStorage.setItem throws (quota, access)
StorageUtils_save(st, key, value, fails) ==
    IF JSON_stringify(value).threw \/ fails
    THEN [store |-> st, threw |-> FALSE, failed |-> TRUE]
    ELSE [store |-> setItem(st, key, StringOf(JSON_stringify(value).value)),
          threw |-> FALSE, failed |-> FALSE]

StorageUtils_load_noCatch(st, key, defaultValue, fails) ==
    IF fails
    THEN [ret |-> "Error", threw |-> TRUE, failed |-> TRUE]
    ELSE LET item == getItem(st, key) IN
         IF item = NullV \/ item = ""
         THEN [ret |-> defaultValue, threw |-> FALSE, failed |-> FALSE]
         ELSE IF JSON_parse(item).threw
              THEN [ret |-> "SyntaxError", threw |-> TRUE, failed |-> TRUE]
              ELSE [ret |-> JSON_parse(item).value, threw |-> FALSE, failed |-> FALSE]

\* load(key, defaultValue); `fails`: localStorage.getItem throws
StorageUtils_load(st, key, defaultValue, fails) ==
    IF fails
    THEN [ret |-> defaultValue, threw |-> FALSE, failed |-> TRUE]
    ELSE LET item == getItem(st, key) IN
         IF item = NullV \/ item = ""
         THEN [ret |-> defaultValue, threw |-> FALSE, failed |-> FALSE]
         ELSE IF JSON_parse(item).threw
              THEN [ret |-> defaultValue, threw |-> FALSE, failed |-> TRUE]
              ELSE [ret |-> JSON_parse(item).value, threw |-> FALSE, failed |-> FALSE]

\* remove(key); `fails`: localStorage.removeItem throws
StorageUtils_remove(st, key, fails) ==
    IF fails
    THEN [store |-> st, threw |-> FALSE, failed |-> TRUE]
    ELSE [store |-> removeItem(st, key), threw |-> FALSE, failed |-> FALSE]

\* clear(); `fails`: localStorage.clear throws
StorageUtils_clear(st, fails) ==
    IF fails
    THEN [store |-> st, threw |-> FALSE, failed |-> TRUE]
    ELSE [store |-> [k \in {} |-> ""], threw |-> FALSE, failed |-> FALSE]

StorageInit ==
    /\ store = [k \in {} |-> ""]
    /\ stLast = [op |-> "none"]

notStorage == <<now, cacheVars, timerVars, apiVars, aqiVars, windVars>>

Save(k, v, fails) ==
    LET r == StorageUtils_save(store, k, v, fails) IN
    /\ store' = r.store
    /\ stLast' = [op |-> "save", key |-> k, value |-> v, threw |-> r.threw,
                  failed |-> r.failed, before |-> store]
    /\ UNCHANGED notStorage

Load(k, d, fails) ==
    LET r == StorageUtils_load(store, k, d, fails) IN
    /\ stLast' = [op |-> "load", key |-> k, dflt |-> d, ret |-> r.ret,
                  threw |-> r.threw, failed |-> r.failed, getFailed |-> fails]
    /\ UNCHANGED <<store, notStorage>>

Remove(k, fails) ==
    LET r == StorageUtils_remove(store, k, fails) IN
    /\ store' = r.store
    /\ stLast' = [op |-> "remove", key |-> k, threw |-> r.threw, failed |-> r.failed]
    /\ UNCHANGED notStorage

ClearStorage(fails) ==
    LET r == StorageUtils_clear(store, fails) IN
    /\ store' = r.store
    /\ stLast' = [op |-> "clear", threw |-> r.threw, failed |-> r.failed]
    /\ UNCHANGED notStorage

\* another script of the page writes a raw string to localStorage
ForeignWrite(k, str) ==
    /\ store' = setItem(store, k, str)
    /\ stLast' = [op |-> "foreign"]
    /\ UNCHANGED notStorage

StorageNext ==
    \/ \E k \in StoreKeys, v \in SaveValues, f \in BOOLEAN : Save(k, v, f)
    \/ \E k \in StoreKeys, d \in Defaults, f \in BOOLEAN : Load(k, d, f)
    \/ \E k \in StoreKeys, f \in BOOLEAN : Remove(k, f)
    \/ \E f \in BOOLEAN : ClearStorage(f)
    \/ \E k \in StoreKeys, str \in RawStrings : ForeignWrite(k, str)

----------------------------------------------------------------------------
(* WeatherUtils.getAQILevel *)

MaxAQI == 510

getAQILevel_strict(a) ==
    IF a < 50 THEN [level |-> "Good", color |-> "green"]
    ELSE IF a < 100 THEN [level |-> "Moderate", color |-> "yellow"]
    ELSE IF a < 150 THEN [level |-> "Unhealthy for Sensitive Groups", color |-> "orange"]
    ELSE IF a < 200 THEN [level |-> "Unhealthy", color |-> "red"]
    ELSE IF a < 300 THEN [level |-> "Very Unhealthy", color |-> "purple"]
    ELSE [level |-> "Hazardous", color |-> "maroon"]

\* getAQILevel(aqi): the level and colour of the returned object
getAQILevel(a) ==
    IF a <= 50 THEN [level |-> "Good", color |-> "green"]
    ELSE IF a <= 100 THEN [level |-> "Moderate", color |-> "yellow"]
    ELSE IF a <= 150 THEN [level |-> "Unhealthy for Sensitive Groups", color |-> "orange"]
    ELSE IF a <= 200 THEN [level |-> "Unhealthy", color |-> "red"]
    ELSE IF a <= 300 THEN [level |-> "Very Unhealthy", color |-> "purple"]
    ELSE [level |-> "Hazardous", color |-> "maroon"]

NotClassified == [level |-> "", color |-> ""]

AqiInit ==
    /\ aqi = 0
    /\ aqiResult = NotClassified

Classify(a) ==
    /\ aqi' = a
    /\ aqiResult' = getAQILevel(a)
    /\ UNCHANGED <<now, cacheVars, timerVars, apiVars, storageVars, windVars>>

AqiNext == \E a \in 0..MaxAQI : Classify(a)

----------------------------------------------------------------------------
(* WeatherUtils.getWindDirection *)

MaxDegrees == 360

\* const directions = ['N', 'NNE', ...]
directions ==
    <<"N", "NNE", "NE", "ENE", "E", "ESE", "SE", "SSE",
      "S", "SSW", "SW", "WSW", "W", "WNW", "NW", "NNW">>

\* Math.round(num / den) for num >= 0, den > 0: the nearest integer, a half
\* rounded up
Math_round(num, den) == (2 * num + den) \div (2 * den)

\* directions[index]: undefined outside the array
ElementAt(arr, index) ==
    IF index >= 0 /\ index < Len(arr) THEN arr[index + 1] ELSE UndefinedV

getWindDirection_noModulo(d) ==
    ElementAt(directions, Math_round(2 * d, 45))

\* getWindDirection(degrees): directions[Math.round(degrees / 22.5) % 16];
\* degrees / 22.5 is 2 * degrees / 45
getWindDirection(d) ==
    ElementAt(directions, Math_round(2 * d, 45) % 16)

NoDirection == ""

WindInit ==
    /\ degrees = 0
    /\ windDir = NoDirection

WindDirection(d) ==
    /\ degrees' = d
    /\ windDir' = getWindDirection(d)
    /\ UNCHANGED <<now, cacheVars, timerVars, apiVars, storageVars, aqiVars>>

WindNext == \E d \in 0..MaxDegrees : WindDirection(d)

----------------------------------------------------------------------------
(* Specifications *)

Init ==
    /\ now = 0
    /\ CacheInit
    /\ TimersInit
    /\ ApiInit
    /\ StorageInit
    /\ AqiInit
    /\ WindInit

SpecCache == Init /\ [][CacheNext]_vars

SpecTimers == Init /\ [][TimersNext]_vars

SpecAPI == Init /\ [][ApiNext]_vars

SpecStorage == Init /\ [][StorageNext]_vars

SpecAQI == Init /\ [][AqiNext]_vars

SpecWind == Init /\ [][WindNext]_vars


----------------------------------------------------------------------------
(* Claims about WeatherCache *)

\* C1: get never returns a stale value: once more than maxAge has elapsed
\* since the most recent set of a key, get of that key returns null; and a
\* value that get does return is the data of an entry that is not expired.
C1_NoStaleRead ==
    lastOp.op = "get" =>
        /\ (lastSetAt[lastOp.key] # Never /\ now - lastSetAt[lastOp.key] > maxAge)
                => lastOp.ret = Null
        /\ lastOp.ret # Null =>
                /\ lastOp.key \in DOMAIN cache
                /\ now - cache[lastOp.key].timestamp <= maxAge

C1_Witness ==
    /\ lastOp.op = "get"
    /\ lastSetAt[lastOp.key] # Never
    /\ now - lastSetAt[lastOp.key] > maxAge
    /\ lastOp.evicted
    /\ lastOp.ret = Null

\* C2: a get that directly follows set(k, v), with no clock advance, returns
\* v; and set stores v with the current time as timestamp, also over an
\* existing entry, so the age restarts at the latest set.
C2_SetThenGet ==
    /\ lastOp.op = "set" =>
            /\ lastOp.key \in DOMAIN cache
            /\ cache[lastOp.key] = [data |-> lastOp.data, timestamp |-> now]
    /\ (lastOp.op = "get" /\ lastOp.prev.op = "set" /\ lastOp.prev.key = lastOp.key)
            => lastOp.ret = lastOp.prev.data

C2_Witness ==
    /\ lastOp.op = "get"
    /\ lastOp.prev.op = "set"
    /\ lastOp.prev.key = lastOp.key
    /\ lastOp.prev.old.timestamp # Never
    /\ now - lastOp.prev.old.timestamp > maxAge
    /\ lastOp.prev.old.data # lastOp.prev.data
    /\ lastOp.ret = lastOp.prev.data

\* C3: clearExpired (called directly or by the interval) leaves exactly the
\* entries whose age was at most maxAge, each unchanged; an entry whose age is
\* exactly maxAge is kept.
C3_ClearExpiredExact ==
    [][lastOp'.op \in {"clearExpired", "sweep"} =>
        /\ DOMAIN cache' = {k \in DOMAIN cache : now - cache[k].timestamp <= maxAge}
        /\ \A k \in DOMAIN cache' : cache'[k] = cache[k]
        /\ now' = now]_vars

C3_Witness ==
    /\ lastOp.op \in {"clearExpired", "sweep"}
    /\ lastOp.removed # {}
    /\ \E k \in DOMAIN cache : now - cache[k].timestamp = maxAge

\* C7: get(key) deletes the entry of key when it is expired, never touches
\* the entries of other keys, and leaves a non-expired entry of key as it is
\* (same data, same timestamp).
C7_GetEvictsOnlyExpired ==
    [][lastOp'.op = "get" =>
        LET k == lastOp'.key IN
        /\ (k \in DOMAIN cache /\ now - cache[k].timestamp > maxAge)
                => k \notin DOMAIN cache'
        /\ (k \in DOMAIN cache /\ now - cache[k].timestamp <= maxAge)
                => (k \in DOMAIN cache' /\ cache'[k] = cache[k])
        /\ \A j \in Keys \ {k} :
                /\ j \in DOMAIN cache <=> j \in DOMAIN cache'
                /\ j \in DOMAIN cache => cache'[j] = cache[j]]_vars

C7_Witness ==
    /\ lastOp.op = "get"
    /\ lastOp.evicted
    /\ \E j \in DOMAIN cache : j # lastOp.key

----------------------------------------------------------------------------
(* Claims about debounce and throttle *)

CallTimesOf(cs) == [i \in 1..Len(cs) |-> cs[i].t]
RunTimesOf(rs) == [i \in 1..Len(rs) |-> rs[i].t]

\* C4: the debounced wrapper runs func only for a call that no other call
\* followed within Wait, once, Wait after that call and with its arguments:
\* every run is the run of the latest call, Wait after it; a call followed by
\* another within Wait never runs; a call that stayed the latest for more
\* than Wait has run; calls at 0, 50, 100 give one run, at 100 + Wait, with
\* the arguments of the call at 100.
C4_DebounceLastCallOnly ==
    /\ \A j \in 1..Len(dRuns) :
        LET r == dRuns[j] IN
        /\ r.n \in 1..Len(calls)
        /\ r.t = calls[r.n].t + Wait
        /\ r.args = calls[r.n].args
        /\ \A i \in 1..Len(calls) : i > r.n => calls[i].t >= r.t
    /\ \A j, k \in 1..Len(dRuns) : j # k => dRuns[j].n # dRuns[k].n
    /\ \A i \in 1..Len(calls) :
        /\ (i < Len(calls) /\ calls[i + 1].t - calls[i].t < Wait)
                => \A j \in 1..Len(dRuns) : dRuns[j].n # i
        /\ (now > calls[i].t + Wait
              /\ (i < Len(calls) => calls[i + 1].t > calls[i].t + Wait))
                => \E j \in 1..Len(dRuns) : dRuns[j].n = i
    /\ (CallTimesOf(calls) = <<0, 50, 100>> /\ now > 100 + Wait)
            => dRuns = <<[t |-> 100 + Wait, args |-> calls[3].args, n |-> 3]>>

C4_Witness ==
    /\ CallTimesOf(calls) = <<0, 50, 100>>
    /\ calls[1].args # calls[3].args
    /\ now > 100 + Wait
    /\ dRuns = <<[t |-> 100 + Wait, args |-> calls[3].args, n |-> 3]>>

\* the last call let through before call i of the throttled wrapper
LetThroughBefore(i) ==
    CHOOSE r \in {tRuns[j] : j \in 1..Len(tRuns)} :
        /\ r.n < i
        /\ \A q \in {tRuns[j] : j \in 1..Len(tRuns)} : q.n < i => q.n <= r.n

\* C5: the throttled wrapper runs func at once on the first call; every run
\* of func happens at the instant of the call that caused it, with that
\* call's arguments; a call less than Limit after the last call let through
\* is ignored for good; a call more than Limit after the last call let
\* through is let through; calls at 0, 10, 300 give runs at 0 and 300.
C5_ThrottleLeadingEdge ==
    /\ Len(calls) >= 1 =>
        /\ Len(tRuns) >= 1
        /\ tRuns[1] = [t |-> calls[1].t, args |-> calls[1].args, n |-> 1]
    /\ \A j \in 1..Len(tRuns) :
        LET r == tRuns[j] IN
        /\ r.n \in 1..Len(calls)
        /\ r.t = calls[r.n].t
        /\ r.args = calls[r.n].args
        /\ \A k \in 1..Len(tRuns) : j < k => r.n < tRuns[k].n
    /\ \A i \in 2..Len(calls) :
        LET ran == \E j \in 1..Len(tRuns) : tRuns[j].n = i
            since == calls[i].t - LetThroughBefore(i).t
        IN  /\ since < Limit => ~ran
            /\ since > Limit => ran
    /\ CallTimesOf(calls) = <<0, 10, 300>> => RunTimesOf(tRuns) = <<0, 300>>

C5_Witness ==
    /\ CallTimesOf(calls) = <<0, 10, 300>>
    /\ RunTimesOf(tRuns) = <<0, 300>>
    /\ tRuns[2].args = calls[3].args
    /\ calls[2].args # calls[3].args

\* a stream of calls whose consecutive gaps are all shorter than both delays
DenseStream ==
    /\ Len(calls) >= 1
    /\ \A i \in 1..(Len(calls) - 1) :
        /\ calls[i + 1].t - calls[i].t < Limit
        /\ calls[i + 1].t - calls[i].t < Wait

StreamStart == calls[1].t
StreamEnd == calls[Len(calls)].t

\* every window of the given length that lies within the stream holds a run
\* of func by the throttled wrapper
RunInEveryWindow(len) ==
    \A s \in StreamStart..(StreamEnd - len) :
        \E j \in 1..Len(tRuns) : s <= tRuns[j].t /\ tRuns[j].t <= s + len

\* while the stream lasts the debounced wrapper has not run func: a run can
\* only be that of the stream's last call
DebounceSilent == \A j \in 1..Len(dRuns) : dRuns[j].n = Len(calls)

\* C6 as stated: under a dense stream, where the debounced wrapper stays
\* silent, the throttled wrapper runs func in every window of Limit ms of the
\* stream.
C6_RunInEveryLimitWindow ==
    DenseStream => (DebounceSilent /\ RunInEveryWindow(Limit))

\* C6 amended: under a dense stream, where the debounced wrapper stays
\* silent, the throttled wrapper runs func in every window of 2 * Limit ms
\* of the stream: two consecutive runs are less than 2 * Limit apart and
\* the last call is at most Limit after the last run.
C6_RunInEveryTwoLimitWindow ==
    DenseStream =>
        /\ DebounceSilent
        /\ RunInEveryWindow(2 * Limit)
        /\ \A j \in 1..(Len(tRuns) - 1) : tRuns[j + 1].t - tRuns[j].t < 2 * Limit
        /\ StreamEnd - tRuns[Len(tRuns)].t <= Limit

C6_Witness ==
    /\ DenseStream
    /\ StreamEnd - StreamStart > 2 * Limit
    /\ Len(tRuns) >= 2
    /\ \E j \in 1..(Len(tRuns) - 1) : tRuns[j + 1].t - tRuns[j].t > Limit
    /\ dRuns = <<>>

----------------------------------------------------------------------------
(* Claims about WeatherAPI *)

\* a call of an operation has ended
ApiEnded == apiPc \in {"returned", "thrown"}

\* one request per call, the one of the operation called, never a second
OneRequest ==
    /\ Len(apiRequests) <= 1
    /\ apiPc # "idle" => apiRequests = <<RequestOf(apiOp)>>

\* a value reaches the caller only from a successful response, and it is the
\* parsed body; nothing is returned after a failure
ReturnsOnlyParsedBody ==
    /\ apiOutcome.kind = "value" <=> apiPc = "returned"
    /\ apiOutcome.kind = "error" <=> apiPc = "thrown"
    /\ apiPc = "returned" =>
        /\ apiResponse.ok
        /\ apiOutcome.what = JSON_parse(apiResponse.body).value
        /\ apiLog = 0

\* C8 as stated: one request per call, and two outcomes only: the parsed body
\* when the status is successful; otherwise the transport error of fetch, or
\* the HTTP-status error when the status is not successful.
C8_TwoOutcomes ==
    /\ OneRequest
    /\ ReturnsOnlyParsedBody
    /\ (ApiEnded /\ apiResponse # NoResponse /\ apiResponse.ok) => apiPc = "returned"
    /\ apiPc = "thrown" =>
        \/ apiResponse = NoResponse /\ apiOutcome.what = "TypeError: Failed to fetch"
        \/ /\ apiResponse # NoResponse
           /\ ~apiResponse.ok
           /\ apiOutcome.what = HttpError(apiResponse.status)

\* C8 amended: one request per call, never a retry, never a value after a
\* failure; the call returns the parsed body when the status is successful
\* and the body is read and parsed as JSON; it rethrows the transport error
\* of fetch, the HTTP-status error when the status is not successful, or the
\* error of response.json() when a successful response's body cannot be read
\* or parsed.
C8_ThreeOutcomes ==
    /\ OneRequest
    /\ ReturnsOnlyParsedBody
    /\ apiPc = "thrown" =>
        /\ apiLog = 1
        /\ \/ apiResponse = NoResponse /\ apiOutcome.what = "TypeError: Failed to fetch"
           \/ /\ apiResponse # NoResponse
              /\ ~apiResponse.ok
              /\ apiOutcome.what = HttpError(apiResponse.status)
           \/ /\ apiResponse # NoResponse
              /\ apiResponse.ok
              /\ \/ apiResponse.body = BodyAborted
                 \/ JSON_parse(apiResponse.body).threw
              /\ apiOutcome.what \in {"SyntaxError", "TypeError: network error"}
    /\ (ApiEnded /\ apiResponse.ok /\ apiResponse.body # BodyAborted
            /\ ~JSON_parse(apiResponse.body).threw) => apiPc = "returned"

C8_Witness ==
    /\ apiPc = "thrown"
    /\ apiOp = "searchCity"
    /\ apiResponse.ok
    /\ apiOutcome.what = "SyntaxError"
    /\ Len(apiRequests) = 1

----------------------------------------------------------------------------
(* Claims about StorageUtils *)

\* C9: no StorageUtils operation throws to its caller, whatever the store or
\* the (de)serialization does; load gives the default value when getItem
\* fails, when the item is no JSON, or when nothing is stored under the key;
\* a save that failed leaves localStorage as it was.
C9_StorageNeverThrows ==
    /\ stLast.op \in {"save", "load", "remove", "clear"} => ~stLast.threw
    /\ stLast.op = "load" =>
        /\ (\/ stLast.getFailed
            \/ stLast.key \notin DOMAIN store
            \/ JSON_parse(store[stLast.key]).threw) => stLast.ret = stLast.dflt
        /\ stLast.failed => stLast.ret = stLast.dflt
    /\ stLast.op = "save" =>
        /\ stLast.failed => store = stLast.before
        /\ ~stLast.failed =>
            /\ stLast.key \in DOMAIN store
            /\ store[stLast.key] = StringOf(JSON_stringify(stLast.value).value)
    /\ (stLast.op \in {"remove", "clear"} /\ stLast.failed) => ~stLast.threw

C9_Witness ==
    /\ stLast.op = "load"
    /\ ~stLast.getFailed
    /\ stLast.key \in DOMAIN store
    /\ store[stLast.key] = "undefined"
    /\ stLast.failed
    /\ stLast.dflt = "light"
    /\ stLast.ret = "light"

----------------------------------------------------------------------------
(* Claims about getAQILevel *)

\* the buckets of the claim: lowest value, highest value, level
AqiBuckets ==
    { <<0, 50, "Good">>, <<51, 100, "Moderate">>,
      <<101, 150, "Unhealthy for Sensitive Groups">>, <<151, 200, "Unhealthy">>,
      <<201, 300, "Very Unhealthy">> }

\* C10: each integer AQI gets the level of the one bucket it lies in:
\* 0-50 Good, 51-100 Moderate, 101-150 Unhealthy for Sensitive Groups,
\* 151-200 Unhealthy, 201-300 Very Unhealthy, and above 300 Hazardous.
C10_AQIBuckets ==
    aqiResult # NotClassified =>
        /\ \A b \in AqiBuckets : (b[1] <= aqi /\ aqi <= b[2]) => aqiResult.level = b[3]
        /\ aqi > 300 => aqiResult.level = "Hazardous"
        /\ Cardinality({b \in AqiBuckets : b[1] <= aqi /\ aqi <= b[2]})
             + (IF aqi > 300 THEN 1 ELSE 0) = 1

C10_Witness == aqi = 501 /\ aqiResult.level = "Hazardous"

----------------------------------------------------------------------------
(* Claims about getWindDirection *)

\* the compass points whose centre, a multiple of 22.5 degrees, is less than
\* 11.25 degrees away from d; point 16 is north again
NearestPoints(d) == {k \in 0..17 : 4 * d - 90 * k < 45 /\ 90 * k - 4 * d < 45}

\* C11: every integer bearing gets the name of the compass point nearest to
\* it, which is the point at index round(degrees / 22.5) modulo 16, one of
\* the 16 names and never undefined; 0 gives N, 90 gives E, 359 and 360 give N.
C11_WindDirectionWraps ==
    windDir # NoDirection =>
        /\ windDir \in {directions[i] : i \in 1..16}
        /\ Cardinality(NearestPoints(degrees)) = 1
        /\ \A k \in NearestPoints(degrees) : windDir = directions[(k % 16) + 1]
        /\ degrees = 0 => windDir = "N"
        /\ degrees = 90 => windDir = "E"
        /\ degrees \in {359, 360} => windDir = "N"

C11_Witness == degrees = 359 /\ windDir = "N"

----------------------------------------------------------------------------
(* Claims about the cache sweeps *)

\* C12: sweeps are idempotent and harmless: in every reachable cache state a
\* second clearExpired at the same clock value gives the Map the first one
\* gave; a sweep that directly follows a sweep changes nothing; and a sweep,
\* wherever it falls among the set and get calls, keeps every entry that is
\* not expired, unchanged.
C12_SweepIdempotent ==
    /\ [](WeatherCache_clearExpired(WeatherCache_clearExpired(cache, now), now)
            = WeatherCache_clearExpired(cache, now))
    /\ [][lastOp'.op \in Sweeps =>
            /\ lastOp.op \in Sweeps => cache' = cache
            /\ \A k \in DOMAIN cache :
                 now - cache[k].timestamp <= maxAge
                    => (k \in DOMAIN cache' /\ cache'[k] = cache[k])]_vars

C12_Witness ==
    /\ lastOp.op \in Sweeps
    /\ lastOp.again
    /\ lastOp.removed = {}
    /\ cache # WeatherCache_clear(cache)

\* C13: with the sweep every SweepInterval, an entry in the Map is never
\* older than maxAge + SweepInterval, and right after a sweep no entry is
\* older than maxAge.
C13_BoundedResidency ==
    /\ \A k \in DOMAIN cache : now - cache[k].timestamp <= maxAge + SweepInterval
    /\ lastOp.op \in Sweeps => \A k \in DOMAIN cache : now - cache[k].timestamp <= maxAge

C13_Witness ==
    /\ now = sweepAt
    /\ \E k \in DOMAIN cache : now - cache[k].timestamp = maxAge + SweepInterval

\* C14: every get returns what a cache without any sweep returns for the
\* same set, get and clear calls at the same instants.
C14_SweepsUnobservable ==
    lastOp.op = "get" => lastOp.ret = lastOp.lazyRet

C14_Witness ==
    /\ lastOp.op = "get"
    /\ lastOp.swept
    /\ lastOp.ret = Null
    /\ lastOp.lazyRet = Null
    /\ \E k \in DOMAIN cache : k \in DOMAIN lazy /\ cache[k] = lazy[k]

====
